---------------------------- MODULE Spec2Model ----------------------------
(***************************************************************************)
(* A model of the BoxScript execution core (boxscript-rs): the box         *)
(* relation predicates (lang/box.rs), the modular arithmetic helpers       *)
(* (lang/math.rs) and the expression engine (lang/expression.rs): the      *)
(* glyph tokenizer, the validator, the shunting-yard sorter and the stack  *)
(* evaluator.                                                              *)
(*                                                                         *)
(* The numeric domain T is instantiated at i8, the narrowest BoxInt.       *)
(* A Rust panic (an unwrap of None, an index out of bounds, unreachable!,  *)
(* an overflow under overflow checks) is the outcome Panic; a returned     *)
(* Err(String) is the outcome Err(msg).                                    *)
(***************************************************************************)
EXTENDS Integers, Sequences, FiniteSets, TLC

VARIABLES
    args,             \* the (start, end, genus) triples handed to Box::new
    boxes,            \* the two results of Box::new
    order,            \* before / after / simultaneous of the ordered pair
    relation,         \* relationship of the ordered pair
    ma, mb,           \* the operands handed to math::modulo / math::inv_modulo
    mod_ret,          \* the result of math::modulo(ma, mb)
    inv_ret,          \* the result of math::inv_modulo(ma, mb)
    expr,             \* the instruction string handed to Molecule::parse
    parse_ret,        \* the result of Molecule::parse(expr)
    children,         \* Molecule.children
    sorted_children,  \* Molecule.sorted_children
    valid,            \* Molecule.valid
    memory,           \* the caller's HashMap<T, T>
    stdout,           \* the caller's output String, as a sequence of code points
    overflow_checks,  \* whether the build traps integer overflow (debug) or wraps (release)
    ret,              \* the result of the last Molecule::run
    run_stack,        \* the operand stack as the last Molecule::run left its loop
    sort_ret,         \* the result of the last direct Molecule::sort
    validate_ret      \* the result of the last direct Molecule::validate

boxVars == <<args, boxes, order, relation>>
mathVars == <<ma, mb, mod_ret, inv_ret>>
parseVars == <<expr, parse_ret>>
molVars == <<children, sorted_children, valid, memory, stdout, overflow_checks,
             ret, run_stack, sort_ret, validate_ret>>
vars == <<boxVars, mathVars, parseVars, molVars>>

(***************************************************************************)
(* Results.                                                                *)
(***************************************************************************)
None == [tag |-> "None"]
Some(v) == [tag |-> "Some", val |-> v]
Ok(v) == [tag |-> "Ok", val |-> v]
Err(msg) == [tag |-> "Err", msg |-> msg]
Panic(why) == [tag |-> "Panic", why |-> why]
NotCalled == [tag |-> "NotCalled"]
\* the value v a call returned, for a call that returns no Result
Returned(v) == [tag |-> "Returned", val |-> v]

\* the panics of the engine
EmptyStack == "called Option::unwrap() on a None value"
Unreachable == "entered unreachable code"

is_ok(r) == r.tag = "Ok"
is_err(r) == r.tag = "Err"

(***************************************************************************)
(* The numeric domain: i8.                                                 *)
(***************************************************************************)
Bits == 8
MinInt == -(2 ^ (Bits - 1))
MaxInt == (2 ^ (Bits - 1)) - 1
T == MinInt .. MaxInt

\* two's-complement wrap of an exact result into T
wrap(n) == ((n - MinInt) % (2 ^ Bits)) + MinInt

abs(n) == IF n < 0 THEN -n ELSE n

\* Rust's `/` and `%` on integers truncate toward zero
trunc_div(a, b) ==
    IF (a >= 0) = (b > 0) THEN abs(a) \div abs(b) ELSE -(abs(a) \div abs(b))
trunc_rem(a, b) == a - b * trunc_div(a, b)

\* checked_mul / checked_add: None on overflow
checked_mul(a, b) == IF a * b \in T THEN Some(a * b) ELSE None
checked_add(a, b) == IF a + b \in T THEN Some(a + b) ELSE None

(***************************************************************************)
(* lang/box.rs                                                             *)
(***************************************************************************)
MaxCoord == 2
Coord == 0 .. MaxCoord
Genus == {"Loop", "Condition", "Execution", "NoOp"}
Loc == [x : Coord, y : Coord]
BoxArgs == [start : Loc, end : Loc, genus : Genus]

\* Box::new accepting every rectangle (the bounds check dropped)
Box_new_unchecked(start, end, genus) ==
    Ok([start |-> start, end |-> end, genus |-> genus])

Box_new(start, end, genus) ==
    IF start.x > end.x \/ start.y > end.y
    THEN Err("Box start is greater than end")
    ELSE Ok([start |-> start, end |-> end, genus |-> genus])

\* the two containment tests taken in the other order
relationship_parent_first(self, other) ==
    IF /\ self.start.x <= other.start.x
       /\ self.end.x >= other.end.x
       /\ self.start.y <= other.start.y
       /\ self.end.y >= other.end.y
    THEN "Parent"
    ELSE IF /\ self.start.x >= other.start.x
            /\ self.end.x <= other.end.x
            /\ self.start.y >= other.start.y
            /\ self.end.y <= other.end.y
         THEN "Child"
         ELSE "Other"

relationship(self, other) ==
    IF /\ self.start.x >= other.start.x
       /\ self.end.x <= other.end.x
       /\ self.start.y >= other.start.y
       /\ self.end.y <= other.end.y
    THEN "Child"
    ELSE IF /\ self.start.x <= other.start.x
            /\ self.end.x >= other.end.x
            /\ self.start.y <= other.start.y
            /\ self.end.y >= other.end.y
         THEN "Parent"
         ELSE "Other"

before(self, other) == self.end.y < other.start.y

after(self, other) == self.start.y > other.end.y

simultaneous(self, other) ==
    self.end.y >= other.start.y /\ self.start.y <= other.end.y

(***************************************************************************)
(* lang/math.rs                                                            *)
(***************************************************************************)
InvalidModulus == "Modulo caused invalid value"
InverseOverflow == "Inverse modulo caused invalid value"
NotInvertible(a) == ToString(a) \o " is not invertible"

\* opt.ok_or(msg)
ok_or(opt, msg) == IF opt.tag = "None" THEN Err(msg) ELSE Ok(opt.val)

modulo(a, b) ==
    IF b = 0
    THEN Err(InvalidModulus)
    ELSE LET with_product(p) ==
                 IF p.tag = "None"
                 THEN Err(InvalidModulus)
                 ELSE IF p.val < 0
                      THEN ok_or(checked_add(b, trunc_rem(a, b)), InvalidModulus)
                      ELSE Ok(trunc_rem(a, b))
         IN  with_product(checked_mul(a, b))

\* whether the body of the `while n < b` loop returns at counter n: the
\* product n * x overflows, or modulo(n * x, b) is Ok(1)
loop_returns(b, x, n) ==
    \/ checked_mul(n, x).tag = "None"
    \/ modulo(n * x, b) = Ok(1)

\* the `while n < b` loop of inv_modulo: n counts up from 1 (n + T::one()
\* cannot overflow, as n < b) to the first counter at which the body returns
inv_modulo_loop(a, b, x) ==
    IF \E n \in 1 .. (b - 1) : loop_returns(b, x, n)
    THEN LET first == CHOOSE n \in 1 .. (b - 1) :
                          /\ loop_returns(b, x, n)
                          /\ \A m \in 1 .. (n - 1) : ~loop_returns(b, x, m)
         IN  IF checked_mul(first, x).tag = "None"
             THEN Err(InverseOverflow)
             ELSE Ok(first)
    ELSE Err(NotInvertible(a))

inv_modulo(a, b) ==
    LET with_x(x) == IF is_err(x) THEN x ELSE inv_modulo_loop(a, b, x.val)
    IN  with_x(modulo(a, b))

(***************************************************************************)
(* lang/expression.rs: atoms                                               *)
(***************************************************************************)
Atom(op) == [op |-> op, val |-> 0]
Data(n) == [op |-> "Data", val |-> n]

Greater == Atom("Greater")
Less == Atom("Less")
Equal == Atom("Equal")
NotEqual == Atom("NotEqual")
Assign == Atom("Assign")
Not == Atom("Not")
And == Atom("And")
Or == Atom("Or")
Xor == Atom("Xor")
LeftShift == Atom("LeftShift")
RightShift == Atom("RightShift")
Add == Atom("Add")
Subtract == Atom("Subtract")
Multiply == Atom("Multiply")
Divide == Atom("Divide")
ModuloAtom == Atom("Modulo")
InverseModuloAtom == Atom("InverseModulo")
LeftParen == Atom("LeftParen")
RightParen == Atom("RightParen")
Output == Atom("Output")
Memory == Atom("Memory")

precedence(self) ==
    CASE self.op \in {"Output", "Assign"} -> 1
      [] self.op \in {"Less", "Greater", "Equal", "NotEqual"} -> 2
      [] self.op = "Or" -> 3
      [] self.op = "Xor" -> 4
      [] self.op = "And" -> 5
      [] self.op \in {"LeftShift", "RightShift"} -> 6
      [] self.op \in {"Add", "Subtract"} -> 7
      [] self.op \in {"Multiply", "Divide", "Modulo", "InverseModulo"} -> 8
      [] self.op \in {"Memory", "Not"} -> 9
      [] OTHER -> 0

form(self) ==
    CASE self.op \in {"Output", "Memory", "Not"} -> "Unary"
      [] self.op = "Data" -> "Number"
      [] OTHER -> "Binary"

(***************************************************************************)
(* Molecule::sort                                                          *)
(***************************************************************************)
MissingLeftParenthesis == "Missing left parenthesis"
MissingRightParenthesis == "Missing right parenthesis"

last(stack) == stack[Len(stack)]
pop(stack) == SubSeq(stack, 1, Len(stack) - 1)

\* while !stack.is_empty() && stack.last() != LeftParen { output.push(stack.pop()) }
RECURSIVE pop_to_paren(_, _)
pop_to_paren(output, stack) ==
    IF stack # <<>> /\ last(stack) # LeftParen
    THEN pop_to_paren(Append(output, last(stack)), pop(stack))
    ELSE [output |-> output, stack |-> stack]

\* the loop with >= for every operator, Assign included
RECURSIVE pop_higher_or_equal(_, _, _, _)
pop_higher_or_equal(output, stack, prec, strict) ==
    IF stack # <<>> /\ precedence(last(stack)) >= prec
    THEN pop_higher_or_equal(Append(output, last(stack)), pop(stack), prec, strict)
    ELSE [output |-> output, stack |-> stack]

\* while !stack.is_empty() && stack.last().precedence() > (or >=) precedence
RECURSIVE pop_higher(_, _, _, _)
pop_higher(output, stack, prec, strict) ==
    IF /\ stack # <<>>
       /\ IF strict THEN precedence(last(stack)) > prec
                    ELSE precedence(last(stack)) >= prec
    THEN pop_higher(Append(output, last(stack)), pop(stack), prec, strict)
    ELSE [output |-> output, stack |-> stack]

\* the final loop without its test for a left parenthesis
RECURSIVE drain_unchecked(_, _)
drain_unchecked(output, stack) ==
    IF stack = <<>>
    THEN Ok(output)
    ELSE drain_unchecked(Append(output, last(stack)), pop(stack))

\* the final `while !stack.is_empty()` loop
RECURSIVE drain(_, _)
drain(output, stack) ==
    IF stack = <<>>
    THEN Ok(output)
    ELSE IF last(stack) = LeftParen
         THEN Err(MissingRightParenthesis)
         ELSE drain(Append(output, last(stack)), pop(stack))

\* the `for child in children` loop, from the i-th child on
RECURSIVE sort_loop(_, _, _, _)
sort_loop(cs, i, output, stack) ==
    IF i > Len(cs)
    THEN drain(output, stack)
    ELSE LET child == cs[i]
         IN  IF child.op = "Data"
             THEN sort_loop(cs, i + 1, Append(output, child), stack)
             ELSE IF child.op \in {"LeftParen", "Not", "Memory"}
             THEN sort_loop(cs, i + 1, output, Append(stack, child))
             ELSE IF child.op = "RightParen"
             THEN LET closed(r) ==
                          IF r.stack = <<>>
                          THEN Err(MissingLeftParenthesis)
                          ELSE sort_loop(cs, i + 1, r.output, pop(r.stack))
                  IN  closed(pop_to_paren(output, stack))
             ELSE LET pushed(r) ==
                          sort_loop(cs, i + 1, r.output, Append(r.stack, child))
                  IN  pushed(pop_higher(output, stack, precedence(child),
                                        child.op = "Assign"))

\* a sort that leaves a memo behind when it fails
sort_caching_failure(cs, sorted) ==
    IF sorted.tag = "None"
    THEN LET done(r) ==
                 IF is_ok(r)
                 THEN [ret |-> r, sorted |-> Some(r.val)]
                 ELSE [ret |-> r, sorted |-> Some(<<>>)]
         IN  done(sort_loop(cs, 1, <<>>, <<>>))
    ELSE [ret |-> Ok(sorted.val), sorted |-> sorted]

\* Molecule::sort(children, sorted): the value returned and the memo left
sort(cs, sorted) ==
    IF sorted.tag = "None"
    THEN LET done(r) ==
                 IF is_ok(r)
                 THEN [ret |-> r, sorted |-> Some(r.val)]
                 ELSE [ret |-> r, sorted |-> sorted]
         IN  done(sort_loop(cs, 1, <<>>, <<>>))
    ELSE [ret |-> Ok(sorted.val), sorted |-> sorted]

(***************************************************************************)
(* Molecule::validate                                                      *)
(***************************************************************************)
MalformedExpression == "Malformed expression"
IndexOutOfBounds == "index out of bounds"

\* token_types: the forms of the children that are not parentheses
RECURSIVE token_types(_)
token_types(cs) ==
    IF cs = <<>>
    THEN <<>>
    ELSE IF Head(cs).op \in {"LeftParen", "RightParen"}
         THEN token_types(Tail(cs))
         ELSE <<form(Head(cs))>> \o token_types(Tail(cs))

\* the term with the test of what precedes an interior Unary left out
token_ok_unary_after_number(tt, i) ==
    IF i = 1
    THEN \/ tt[i] = "Number" /\ tt[i + 1] = "Binary"
         \/ tt[i] = "Unary" /\ tt[i + 1] # "Binary"
    ELSE IF i = Len(tt)
    THEN (tt[i - 1] = "Binary" \/ tt[i - 1] = "Unary") /\ tt[i] = "Number"
    ELSE CASE tt[i] = "Number" -> tt[i - 1] # "Number" /\ tt[i + 1] # "Number"
           [] tt[i] = "Unary" -> tt[i + 1] # "Binary"
           [] tt[i] = "Binary" -> tt[i - 1] = "Number" /\ tt[i + 1] # "Binary"

\* the term `*valid &=` receives at index i (len >= 2)
token_ok(tt, i) ==
    IF i = 1
    THEN \/ tt[i] = "Number" /\ tt[i + 1] = "Binary"
         \/ tt[i] = "Unary" /\ tt[i + 1] # "Binary"
    ELSE IF i = Len(tt)
    THEN (tt[i - 1] = "Binary" \/ tt[i - 1] = "Unary") /\ tt[i] = "Number"
    ELSE CASE tt[i] = "Number" -> tt[i - 1] # "Number" /\ tt[i + 1] # "Number"
           [] tt[i] = "Unary" -> tt[i - 1] # "Number" /\ tt[i + 1] # "Binary"
           [] tt[i] = "Binary" -> tt[i - 1] = "Number" /\ tt[i + 1] # "Binary"

\* Molecule::validate(children, valid): the value returned and the flag left
validate(cs, v) ==
    IF ~v
    THEN LET check(tt) ==
                 IF \/ Len(tt) = 1 /\ tt[1] # "Number"
                    \/ Len(tt) = 2 /\ (tt[1] # "Unary" \/ tt[2] # "Number")
                 THEN [ret |-> Err(MalformedExpression), valid |-> v]
                 ELSE IF tt = <<>>
                 THEN [ret |-> Ok(<<>>), valid |-> TRUE]
                 \* a lone Number: token_types[i + 1] is read at i = 0,
                 \* after *valid = true
                 ELSE IF Len(tt) = 1
                 THEN [ret |-> Panic(IndexOutOfBounds), valid |-> TRUE]
                 ELSE IF \A i \in 1 .. Len(tt) : token_ok(tt, i)
                 THEN [ret |-> Ok(<<>>), valid |-> TRUE]
                 ELSE [ret |-> Err(MalformedExpression), valid |-> FALSE]
         IN  check(token_types(cs))
    ELSE [ret |-> Ok(<<>>), valid |-> v]

(***************************************************************************)
(* Molecule::parse.  An instruction string is a sequence of characters.    *)
(***************************************************************************)
InvalidCharacter == "Invalid character"

\* a character is named by its code point: "U+2580" is '▀', "U+2584" is '▄'
DigitGlyphs == {"U+2584", "U+2580"}
Whitespace == {" ", "\n"}

\* the match of the last branch: the atom of an operator glyph
glyph_atom(c) ==
    CASE c = "U+2595" -> Some(LeftParen)    \* '▕'
      [] c = "U+258F" -> Some(RightParen)    \* '▏'
      [] c = "U+2594" -> Some(Not)    \* '▔'
      [] c = "U+2596" -> Some(ModuloAtom)    \* '▖'
      [] c = "U+2597" -> Some(InverseModuloAtom)    \* '▗'
      [] c = "U+2598" -> Some(Multiply)    \* '▘'
      [] c = "U+259D" -> Some(Divide)    \* '▝'
      [] c = "U+259A" -> Some(LeftShift)    \* '▚'
      [] c = "U+259E" -> Some(RightShift)    \* '▞'
      [] c = "U+2590" -> Some(Add)    \* '▐'
      [] c = "U+258C" -> Some(Subtract)    \* '▌'
      [] c = "U+25A8" -> Some(Less)    \* '▨'
      [] c = "U+25A7" -> Some(Greater)    \* '▧'
      [] c = "U+25A4" -> Some(Equal)    \* '▤'
      [] c = "U+25A5" -> Some(NotEqual)    \* '▥'
      [] c = "U+2591" -> Some(And)    \* '░'
      [] c = "U+2592" -> Some(Xor)    \* '▒'
      [] c = "U+2593" -> Some(Or)    \* '▓'
      [] c = "U+25C7" -> Some(Memory)    \* '◇'
      [] c = "U+25C8" -> Some(Assign)    \* '◈'
      [] c = "U+25AD" -> Some(Output)    \* '▭'
      [] OTHER -> None

\* the length of the match of ^[class]+ at the start of e (0: no match)
RECURSIVE prefix_len(_, _)
prefix_len(e, class) ==
    IF e # <<>> /\ Head(e) \in class
    THEN 1 + prefix_len(Tail(e), class)
    ELSE 0

drop(e, n) == SubSeq(e, n + 1, Len(e))

\* T::from_str_radix(digits, 2): digit by digit, an Err once the value
\* leaves T
RECURSIVE from_str_radix(_, _)
from_str_radix(digits, acc) ==
    IF digits = <<>>
    THEN Ok(acc)
    ELSE LET next == 2 * acc + (IF Head(digits) = "U+2580" THEN 1 ELSE 0)
         IN  IF next > MaxInt
             THEN Err("number too large to fit in target type")
             ELSE from_str_radix(Tail(digits), next)

\* a numeral run of length 1 read as the literal one
numeral_one_for_single(number) ==
    IF Len(number) = 1
    THEN Ok(Data(IF number[1] = "U+2580" THEN 1 ELSE 0))
    ELSE LET signed(val) ==
                 IF ~is_ok(val)
                 THEN Panic(Unreachable)
                 ELSE IF Head(number) = "U+2584"
                      THEN Ok(Data(0 - val.val))
                      ELSE Ok(Data(val.val))
         IN  signed(from_str_radix(Tail(number), 0))

\* the atom of one numeral run
numeral(number) ==
    IF Len(number) = 1
    THEN Ok(Data(0))
    ELSE LET signed(val) ==
                 IF ~is_ok(val)
                 THEN Panic(Unreachable)
                 ELSE IF Head(number) = "U+2584"
                      THEN Ok(Data(0 - val.val))
                      ELSE Ok(Data(val.val))
         IN  signed(from_str_radix(Tail(number), 0))

\* the `while !expr_copy.is_empty()` loop
RECURSIVE parse_loop(_, _)
parse_loop(expr_copy, cs) ==
    IF expr_copy = <<>>
    THEN Ok(cs)
    ELSE IF prefix_len(expr_copy, Whitespace) > 0
    THEN parse_loop(drop(expr_copy, prefix_len(expr_copy, Whitespace)), cs)
    ELSE IF prefix_len(expr_copy, DigitGlyphs) > 0
    THEN LET pushed(n, d) ==
                 IF is_ok(d)
                 THEN parse_loop(drop(expr_copy, n), Append(cs, d.val))
                 ELSE d
             number(n) == pushed(n, numeral(SubSeq(expr_copy, 1, n)))
         IN  number(prefix_len(expr_copy, DigitGlyphs))
    ELSE LET pushed(a) ==
                 IF a.tag = "None"
                 THEN Err(InvalidCharacter)
                 ELSE parse_loop(drop(expr_copy, 1), Append(cs, a.val))
         IN  pushed(glyph_atom(Head(expr_copy)))

parse(e) == parse_loop(e, <<>>)

(***************************************************************************)
(* Integer operators of T used by the evaluator                            *)
(***************************************************************************)
IntegerOverflow == "arithmetic overflow"
NegativeShiftAmount == "Bitwise shifts cannot use signed integers"
DivisionByZero == "Division by zero"

\* a + b, a - b, a * b on a primitive integer: the exact result n either fits,
\* or traps (overflow checks on) or wraps (overflow checks off)
arith(n, checks) ==
    IF n \in T THEN Ok(n)
    ELSE IF checks THEN Panic(IntegerOverflow) ELSE Ok(wrap(n))

\* the bits of the two's-complement representation, as 0 .. 2^Bits - 1
unsigned(a) == IF a < 0 THEN a + 2 ^ Bits ELSE a

RECURSIVE bits_and(_, _, _)
bits_and(x, y, k) ==
    IF k = 0 THEN 0
    ELSE (IF x % 2 = 1 /\ y % 2 = 1 THEN 1 ELSE 0)
         + 2 * bits_and(x \div 2, y \div 2, k - 1)

RECURSIVE bits_or(_, _, _)
bits_or(x, y, k) ==
    IF k = 0 THEN 0
    ELSE (IF x % 2 = 1 \/ y % 2 = 1 THEN 1 ELSE 0)
         + 2 * bits_or(x \div 2, y \div 2, k - 1)

RECURSIVE bits_xor(_, _, _)
bits_xor(x, y, k) ==
    IF k = 0 THEN 0
    ELSE (IF x % 2 # y % 2 THEN 1 ELSE 0)
         + 2 * bits_xor(x \div 2, y \div 2, k - 1)

bitand(a, b) == wrap(bits_and(unsigned(a), unsigned(b), Bits))
bitor(a, b) == wrap(bits_or(unsigned(a), unsigned(b), Bits))
bitxor(a, b) == wrap(bits_xor(unsigned(a), unsigned(b), Bits))
bitnot(a) == -a - 1

\* b.to_usize()
to_usize(b) == IF b < 0 THEN None ELSE Some(b)

\* a << n and a >> n for a usize n: a shift by Bits or more traps (overflow
\* checks on) or shifts by n mod Bits (overflow checks off)
shl(a, n, checks) ==
    IF n < Bits THEN Ok(wrap(a * 2 ^ n))
    ELSE IF checks THEN Panic(IntegerOverflow) ELSE Ok(wrap(a * 2 ^ (n % Bits)))

shr(a, n, checks) ==
    IF n < Bits THEN Ok((a - (a % 2 ^ n)) \div 2 ^ n)
    ELSE IF checks THEN Panic(IntegerOverflow)
         ELSE Ok((a - (a % 2 ^ (n % Bits))) \div 2 ^ (n % Bits))

\* math::divide
divide(a, b) ==
    IF b = 0 THEN Err(DivisionByZero) ELSE Ok(wrap(trunc_div(a, b)))

(***************************************************************************)
(* Molecule::run                                                           *)
(***************************************************************************)
ReplacementMarker == 65535
MaxScalar == 1114111
SurrogateLow == 55296
SurrogateHigh == 57343

\* the operand appended as it is, with no conversion to a character
output_char_raw(a) == a

\* a.to_u32() followed by std::char::from_u32
output_char(a) ==
    IF a < 0 THEN ReplacementMarker
    ELSE IF a > MaxScalar \/ (a >= SurrogateLow /\ a <= SurrogateHigh)
         THEN ReplacementMarker
         ELSE a

\* memory.get(&a).unwrap_or(&T::zero())
memory_get(mem, a) == IF a \in DOMAIN mem THEN mem[a] ELSE 0

\* an insert that keeps the inserted key alone
memory_insert_forgetting(mem, a, b) == [k \in {a} |-> b]

\* memory.insert(a, b)
memory_insert(mem, a, b) ==
    [k \in DOMAIN mem \cup {a} |-> IF k = a THEN b ELSE mem[k]]

bool(p) == IF p THEN 1 ELSE 0

\* the value the match on a binary operator yields for operands a, b
binary(child, a, b, checks) ==
    CASE child.op = "Add" -> arith(a + b, checks)
      [] child.op = "Subtract" -> arith(a - b, checks)
      [] child.op = "Multiply" -> arith(a * b, checks)
      [] child.op = "Divide" -> divide(a, b)
      [] child.op = "Modulo" -> modulo(a, b)
      [] child.op = "InverseModulo" -> inv_modulo(a, b)
      [] child.op = "LeftShift" ->
            IF to_usize(b).tag = "None" THEN Err(NegativeShiftAmount)
            ELSE shl(a, b, checks)
      [] child.op = "RightShift" ->
            IF to_usize(b).tag = "None" THEN Err(NegativeShiftAmount)
            ELSE shr(a, b, checks)
      [] child.op = "And" -> Ok(bitand(a, b))
      [] child.op = "Or" -> Ok(bitor(a, b))
      [] child.op = "Xor" -> Ok(bitxor(a, b))
      [] child.op = "Less" -> Ok(bool(a < b))
      [] child.op = "Greater" -> Ok(bool(a > b))
      [] child.op = "Equal" -> Ok(bool(a = b))
      [] child.op = "NotEqual" -> Ok(bool(a # b))
      [] child.op = "Assign" -> Ok(b)
      [] OTHER -> Panic(Unreachable)

\* the state of the evaluation loop: the operand stack, the memory map, the
\* output buffer, and Ok(<<>>) while the loop goes on
Running(stack, mem, out) ==
    [ret |-> Ok(<<>>), stack |-> stack, memory |-> mem, stdout |-> out]
Stopped(r, stack, mem, out) ==
    [ret |-> r, stack |-> stack, memory |-> mem, stdout |-> out]

\* one iteration of `for child in children`
exec_atom(child, stack, mem, out, checks) ==
    IF child.op = "Data"
    THEN Running(Append(stack, child.val), mem, out)
    ELSE IF child.op \in {"Memory", "Not", "Output"}
    THEN IF stack = <<>>
         THEN Stopped(Panic(EmptyStack), stack, mem, out)
         ELSE LET a == last(stack)
                  rest == pop(stack)
              IN  CASE child.op = "Memory" ->
                         Running(Append(rest, memory_get(mem, a)), mem, out)
                    [] child.op = "Not" ->
                         Running(Append(rest, bitnot(a)), mem, out)
                    [] child.op = "Output" ->
                         Running(Append(rest, a), mem,
                                 Append(out, output_char(a)))
    ELSE IF stack = <<>>
         THEN Stopped(Panic(EmptyStack), stack, mem, out)
         ELSE IF Len(stack) = 1
         THEN Stopped(Panic(EmptyStack), <<>>, mem, out)
         ELSE LET b == last(stack)
                  a == last(pop(stack))
                  rest == pop(pop(stack))
                  pushed(v, mem2) ==
                      IF is_ok(v)
                      THEN Running(Append(rest, v.val), mem2, out)
                      ELSE Stopped(v, rest, mem2, out)
              IN  pushed(binary(child, a, b, checks),
                         IF child.op = "Assign"
                         THEN memory_insert(mem, a, b) ELSE mem)

\* the evaluation loop from the i-th atom of the postfix sequence on
RECURSIVE exec(_, _, _, _, _, _)
exec(cs, i, stack, mem, out, checks) ==
    IF i > Len(cs)
    THEN Running(stack, mem, out)
    ELSE LET continue(s) ==
                 IF is_ok(s.ret)
                 THEN exec(cs, i + 1, s.stack, s.memory, s.stdout, checks)
                 ELSE s
         IN  continue(exec_atom(cs[i], stack, mem, out, checks))

\* a run that sorts and executes first and reports what validate found last
run_validating_late(cs, sorted, v, mem, out, checks) ==
    LET returned(r, va, so, stack, mem2, out2) ==
            [ret |-> r, valid |-> va.valid, sorted |-> so.sorted,
             stack |-> stack, memory |-> mem2, stdout |-> out2]
        evaluated(va, so, e) ==
            returned(IF ~is_ok(va.ret) THEN va.ret
                     ELSE IF is_ok(e.ret)
                     THEN Ok([result |-> IF e.stack = <<>> THEN 0
                                         ELSE last(e.stack),
                              output |-> e.stdout])
                     ELSE e.ret,
                     va, so, e.stack, e.memory, e.stdout)
        sorted_by(va, so) ==
            IF ~is_ok(so.ret)
            THEN returned(so.ret, va, so, <<>>, mem, out)
            ELSE evaluated(va, so, exec(so.ret.val, 1, <<>>, mem, out, checks))
    IN  sorted_by(validate(cs, v), sort(cs, sorted))

\* Molecule::run(&mut self, memory, stdout): the value returned, the fields of
\* the Molecule and the caller's memory and output after the call, and the
\* operand stack as the loop left it
run(cs, sorted, v, mem, out, checks) ==
    LET returned(r, va, so, stack, mem2, out2) ==
            [ret |-> r, valid |-> va.valid, sorted |-> so.sorted,
             stack |-> stack, memory |-> mem2, stdout |-> out2]
        evaluated(va, so, e) ==
            returned(IF is_ok(e.ret)
                     THEN Ok([result |-> IF e.stack = <<>> THEN 0
                                         ELSE last(e.stack),
                              output |-> e.stdout])
                     ELSE e.ret,
                     va, so, e.stack, e.memory, e.stdout)
        sorted_by(va, so) ==
            IF ~is_ok(so.ret)
            THEN returned(so.ret, va, so, <<>>, mem, out)
            ELSE evaluated(va, so, exec(so.ret.val, 1, <<>>, mem, out, checks))
        validated(va) ==
            IF ~is_ok(va.ret)
            THEN returned(va.ret, va, [sorted |-> sorted], <<>>, mem, out)
            ELSE sorted_by(va, sort(cs, sorted))
    IN  validated(validate(cs, v))

(***************************************************************************)
(* Specification of the box relation model: two boxes are constructed from *)
(* arbitrary corner pairs and the ordered pair is classified.              *)
(***************************************************************************)
molIdle ==
    /\ children = <<>>
    /\ sorted_children = None
    /\ valid = FALSE
    /\ memory = [k \in {} |-> 0]
    /\ stdout = <<>>
    /\ overflow_checks = TRUE
    /\ ret = NotCalled
    /\ run_stack = <<>>
    /\ sort_ret = NotCalled
    /\ validate_ret = NotCalled

boxIdle ==
    /\ args = <<>>
    /\ boxes = <<>>
    /\ order = NotCalled
    /\ relation = NotCalled

mathIdle ==
    /\ ma = 0
    /\ mb = 0
    /\ mod_ret = NotCalled
    /\ inv_ret = NotCalled

parseIdle ==
    /\ expr = <<>>
    /\ parse_ret = NotCalled

InitBox ==
    /\ args \in [a : BoxArgs, b : BoxArgs]
    /\ boxes = <<>>
    /\ order = NotCalled
    /\ relation = NotCalled
    /\ mathIdle /\ parseIdle /\ molIdle

\* Box::new on both corner pairs
NewBoxes ==
    /\ boxes = <<>>
    /\ boxes' = [a |-> Box_new(args.a.start, args.a.end, args.a.genus),
                 b |-> Box_new(args.b.start, args.b.end, args.b.genus)]
    /\ UNCHANGED <<args, order, relation, mathVars, parseVars, molVars>>

BothBuilt == boxes # <<>> /\ is_ok(boxes.a) /\ is_ok(boxes.b)

\* a.before(&b), a.after(&b), a.simultaneous(&b)
Order ==
    /\ BothBuilt
    /\ order' = [before |-> before(boxes.a.val, boxes.b.val),
                 after |-> after(boxes.a.val, boxes.b.val),
                 simultaneous |-> simultaneous(boxes.a.val, boxes.b.val)]
    /\ UNCHANGED <<args, boxes, relation, mathVars, parseVars, molVars>>

\* a.relationship(&b)
Relate ==
    /\ BothBuilt
    /\ relation' = Returned(relationship(boxes.a.val, boxes.b.val))
    /\ UNCHANGED <<args, boxes, order, mathVars, parseVars, molVars>>

NextBox == NewBoxes \/ Order \/ Relate

SpecBox == InitBox /\ [][NextBox]_vars

\* C2: for every ordered pair of boxes Box::new returned, exactly one of
\* before, after and simultaneous is true.
C2_ExactlyOneOrder ==
    order # NotCalled =>
        Cardinality({k \in {"before", "after", "simultaneous"} : order[k]}) = 1

\* a constructed box more than one row high that ends before another starts
C2_Witness ==
    /\ order # NotCalled
    /\ order.before
    /\ boxes.a.val.start.y < boxes.a.val.end.y

(***************************************************************************)
(* Specification of the modular arithmetic: every pair of i8 operands.     *)
(***************************************************************************)
InitMath ==
    /\ ma \in T
    /\ mb \in T
    /\ mod_ret = NotCalled
    /\ inv_ret = NotCalled
    /\ boxIdle /\ parseIdle /\ molIdle

Modulo ==
    /\ mod_ret' = modulo(ma, mb)
    /\ UNCHANGED <<ma, mb, inv_ret, boxVars, parseVars, molVars>>

InverseModulo ==
    /\ inv_ret' = inv_modulo(ma, mb)
    /\ UNCHANGED <<ma, mb, mod_ret, boxVars, parseVars, molVars>>

NextMath == Modulo \/ InverseModulo

SpecMath == InitMath /\ [][NextMath]_vars

\* r is the mathematical a modulo b: congruent to a, smaller than b in
\* magnitude, and zero or of the sign of b
IsTrueModulo(r, a, b) ==
    /\ \E k \in -(2 ^ Bits) .. (2 ^ Bits) : a - r = k * b
    /\ abs(r) < abs(b)
    /\ r = 0 \/ (r > 0) = (b > 0)

\* C5: modulo(a, 0) fails with InvalidModulus, and for b # 0 modulo(a, b)
\* returns Ok(r) with r the true mathematical modulo.
C5_ModuloIsTrueModulo ==
    mod_ret # NotCalled =>
        IF mb = 0
        THEN mod_ret = Err(InvalidModulus)
        ELSE is_ok(mod_ret) /\ IsTrueModulo(mod_ret.val, ma, mb)

\* the inverses of (a mod b) in 1..b-1
Inverses(a, b) ==
    IF b < 2 THEN {} ELSE {n \in 1 .. (b - 1) : (n * (a % b)) % b = 1}

Least(S) == CHOOSE n \in S : \A m \in S : n <= m

\* C6: inv_modulo(a, b) returns Ok of the least inverse of a mod b in 1..b
\* when one exists, and fails with NotInvertible exactly when none exists.
C6_InverseFoundWhenItExists ==
    inv_ret # NotCalled =>
        IF Inverses(ma, mb) # {}
        THEN inv_ret = Ok(Least(Inverses(ma, mb)))
        ELSE inv_ret = Err(NotInvertible(ma))

(***************************************************************************)
(* The Molecule: construction, and the calls a holder of it can make.      *)
(***************************************************************************)
\* all sequences over S of length at most n
SeqsUpTo(S, n) == UNION {[1 .. k -> S] : k \in 0 .. n}

\* a panic ends the process: nothing is called after it
alive == ret.tag # "Panic" /\ validate_ret.tag # "Panic"

MaxOutput == 2

\* mol.run(&mut memory, &mut stdout)
Run ==
    /\ alive
    /\ Len(stdout) < MaxOutput
    /\ \E r \in {run(children, sorted_children, valid, memory, stdout,
                     overflow_checks)} :
           /\ ret' = r.ret
           /\ valid' = r.valid
           /\ sorted_children' = r.sorted
           /\ run_stack' = r.stack
           /\ memory' = r.memory
           /\ stdout' = r.stdout
    /\ UNCHANGED <<children, overflow_checks, sort_ret, validate_ret,
                   boxVars, mathVars, parseVars>>

\* Molecule::sort(&mol.children, &mut mol.sorted_children)
Sort ==
    /\ alive
    /\ \E r \in {sort(children, sorted_children)} :
           /\ sort_ret' = r.ret
           /\ sorted_children' = r.sorted
    /\ UNCHANGED <<children, valid, memory, stdout, overflow_checks, ret,
                   run_stack, validate_ret, boxVars, mathVars, parseVars>>

\* Molecule::validate(&mol.children, &mut mol.valid)
Validate ==
    /\ alive
    /\ \E r \in {validate(children, valid)} :
           /\ validate_ret' = r.ret
           /\ valid' = r.valid
    /\ UNCHANGED <<children, sorted_children, memory, stdout, overflow_checks,
                   ret, run_stack, sort_ret, boxVars, mathVars, parseVars>>

(***************************************************************************)
(* Specification of the tokenizer: an instruction string is parsed, a      *)
(* Molecule is made of the atoms, and the Molecule is run.                 *)
(***************************************************************************)
MaxExprLen == 3
MaxRunLen == Bits + 1

OperatorGlyphs ==
    {"U+2595", "U+258F", "U+2594", "U+2596", "U+2597", "U+2598", "U+259D", "U+259A", "U+259E", "U+2590", "U+258C", "U+25A8", "U+25A7", "U+25A4",
     "U+25A5", "U+2591", "U+2592", "U+2593", "U+25C7", "U+25C8", "U+25AD"}

\* the characters of the instruction strings tried: the reserved alphabet,
\* a blank, and a character outside the alphabet
Characters == DigitGlyphs \cup OperatorGlyphs \cup {" ", "a"}

Instructions ==
    SeqsUpTo(Characters, MaxExprLen) \cup SeqsUpTo(DigitGlyphs, MaxRunLen)

InitParse ==
    /\ expr \in Instructions
    /\ parse_ret = NotCalled
    /\ boxIdle /\ mathIdle /\ molIdle

\* Molecule::parse(expr)
Parse ==
    /\ parse_ret' = parse(expr)
    /\ UNCHANGED <<expr, boxVars, mathVars, molVars>>

\* Molecule::new(Molecule::parse(expr).unwrap()), replacing the Molecule held
New ==
    /\ alive
    /\ is_ok(parse_ret)
    /\ children' = parse_ret.val
    /\ sorted_children' = None
    /\ valid' = FALSE
    /\ ret' = NotCalled
    /\ run_stack' = <<>>
    /\ sort_ret' = NotCalled
    /\ validate_ret' = NotCalled
    /\ UNCHANGED <<memory, stdout, overflow_checks, boxVars, mathVars, parseVars>>

NextParse == Parse \/ New \/ Run

SpecParse == InitParse /\ [][NextParse]_vars

(***************************************************************************)
(* Specification of the Molecule: Molecule::new(children) for a bounded    *)
(* choice of children, run against a caller's memory and output buffer.    *)
(***************************************************************************)
MaxAtoms == 4

CoreAtoms ==
    {Data(0), Data(1), Not, Memory, Output, Add, Assign, LeftParen, RightParen}

BinaryAtoms ==
    {Greater, Less, Equal, NotEqual, Assign, And, Or, Xor, LeftShift,
     RightShift, Add, Subtract, Multiply, Divide, ModuloAtom,
     InverseModuloAtom}

\* operands at and next to the ends of T, and around zero and Bits
ArithValues ==
    {MinInt, MinInt + 1, -Bits, -2, -1, 0, 1, 2, Bits - 1, Bits, MaxInt - 1, MaxInt}

ArithPrograms ==
    {<<Data(a), op, Data(b)>> : a \in ArithValues, op \in BinaryAtoms, b \in ArithValues}

Programs == SeqsUpTo(CoreAtoms, MaxAtoms) \cup ArithPrograms

Memories == {[k \in {} |-> 0], [k \in {0} |-> 48]}

Init ==
    /\ children \in Programs
    /\ sorted_children = None
    /\ valid = FALSE
    /\ memory \in Memories
    /\ stdout = <<>>
    /\ overflow_checks \in BOOLEAN
    /\ ret = NotCalled
    /\ run_stack = <<>>
    /\ sort_ret = NotCalled
    /\ validate_ret = NotCalled
    /\ boxIdle /\ mathIdle /\ parseIdle

Next == Run \/ Sort \/ Validate

Spec == Init /\ [][Next]_vars

(***************************************************************************)
(* Claims on the tokenizer (SpecParse).                                    *)
(***************************************************************************)
OnePlusOne == <<"U+2580", "U+2590", "U+2580">>

\* the Molecule held was made of the atoms of expr and has been run
RanParsed == is_ok(parse_ret) /\ children = parse_ret.val /\ ret # NotCalled

\* C7 as stated: "▀▐▀", parsed and run with empty memory and output,
\* returns the result 2 with empty output.
C7_GlyphSumIsTwo ==
    (expr = OnePlusOne /\ RanParsed) =>
        ret = Ok([result |-> 2, output |-> <<>>])

\* C7 as amended: "▀▐▀", parsed and run with empty memory and output,
\* returns the result 0 with empty output (a lone digit glyph is zero).
C7_GlyphSumIsZero ==
    (expr = OnePlusOne /\ RanParsed) =>
        ret = Ok([result |-> 0, output |-> <<>>])

C7_Witness ==
    expr = OnePlusOne /\ RanParsed /\ is_ok(ret) /\ DOMAIN memory = {}

\* the positions of expr at which a token starts: an operator or parenthesis
\* glyph, or the first glyph of a maximal run of digit glyphs
TokenStarts(e) ==
    {i \in 1 .. Len(e) :
        \/ e[i] \in OperatorGlyphs
        \/ e[i] \in DigitGlyphs /\ (i = 1 \/ e[i - 1] \notin DigitGlyphs)}

\* the last position of the maximal run of digit glyphs that starts at i
RunEnd(e, i) ==
    CHOOSE j \in i .. Len(e) :
        /\ \A k \in i .. j : e[k] \in DigitGlyphs
        /\ j = Len(e) \/ e[j + 1] \notin DigitGlyphs

\* the big-endian value of the glyphs e[i..j], '▀' = 1 and '▄' = 0
RECURSIVE Magnitude(_, _, _)
Magnitude(e, i, j) ==
    IF i > j THEN 0
    ELSE (IF e[i] = "U+2580" THEN 2 ^ (j - i) ELSE 0) + Magnitude(e, i + 1, j)

\* the value of the run e[i..j]: zero for a lone glyph, else the magnitude
\* of the glyphs after the first, negated when the first is '▄'
RunValue(e, i, j) ==
    IF i = j THEN 0
    ELSE IF e[i] = "U+2584" THEN -Magnitude(e, i + 1, j) ELSE Magnitude(e, i + 1, j)

\* the atoms of the tokens of e that start at position i or later
RECURSIVE Decoded(_, _)
Decoded(e, i) ==
    IF i > Len(e) THEN <<>>
    ELSE IF i \notin TokenStarts(e) THEN Decoded(e, i + 1)
    ELSE IF e[i] \in DigitGlyphs
         THEN <<Data(RunValue(e, i, RunEnd(e, i)))>> \o Decoded(e, RunEnd(e, i) + 1)
         ELSE <<glyph_atom(e[i]).val>> \o Decoded(e, i + 1)

Recognised(e) ==
    \A i \in 1 .. Len(e) : e[i] \in DigitGlyphs \cup OperatorGlyphs \cup Whitespace

\* C8: parse decodes each maximal run of digit glyphs into one Data atom:
\* zero for a run of length 1, else the big-endian magnitude of the glyphs
\* after the first, negated when the first glyph is '▄'.
C8_RunsDecodeToData ==
    (parse_ret # NotCalled /\ Recognised(expr)) =>
        parse_ret = Ok(Decoded(expr, 1))

\* C9: parse returns InvalidCharacter when the string holds a character
\* outside the alphabet, and otherwise Ok with one atom per glyph or numeral
\* run; it fails in no other way, whatever the length of a numeral run.
C9_ParseFailsOnlyOnBadCharacter ==
    parse_ret # NotCalled =>
        IF Recognised(expr)
        THEN is_ok(parse_ret) /\ Len(parse_ret.val) = Cardinality(TokenStarts(expr))
        ELSE parse_ret = Err(InvalidCharacter)

(***************************************************************************)
(* Claims on the Molecule (Spec).                                          *)
(***************************************************************************)
\* the last run got past validate and sort
RunEvaluated ==
    /\ ret # NotCalled
    /\ ret # Err(MalformedExpression)
    /\ ret # Err(MissingLeftParenthesis)
    /\ ret # Err(MissingRightParenthesis)
    /\ ret # Panic(IndexOutOfBounds)

\* C1: a run that validate and sort accept never pops an empty operand
\* stack, and a run that completes leaves exactly one value on the stack,
\* or none when the instruction holds no operand or operator at all.
C1_EvaluationLeavesOneValue ==
    RunEvaluated =>
        /\ ret # Panic(EmptyStack)
        /\ is_ok(ret) =>
              \/ Len(run_stack) = 1
              \/ run_stack = <<>> /\ token_types(children) = <<>>

\* the forms the validator classifies the Molecule's children into
Forms == token_types(children)

Interior(tt) == 2 .. (Len(tt) - 1)

\* the conditions C3 lists
ListedWellFormed(tt) ==
    /\ \/ tt[1] = "Number" /\ tt[2] = "Binary"
       \/ tt[1] = "Unary" /\ tt[2] # "Binary"
    /\ tt[Len(tt)] = "Number" /\ tt[Len(tt) - 1] \in {"Binary", "Unary"}
    /\ \A i \in Interior(tt) :
          /\ tt[i] = "Number" => tt[i - 1] # "Number" /\ tt[i + 1] # "Number"
          /\ tt[i] = "Unary" => tt[i + 1] # "Binary"
          /\ tt[i] = "Binary" => tt[i - 1] = "Number" /\ tt[i + 1] # "Binary"

\* C3 as stated: with three or more classified tokens, validate accepts
\* exactly the sequences that meet the listed conditions, and fails every
\* other with MalformedExpression.
C3_ValidateIsListedConditions ==
    (validate_ret # NotCalled /\ Len(Forms) >= 3) =>
        IF ListedWellFormed(Forms)
        THEN validate_ret = Ok(<<>>)
        ELSE validate_ret = Err(MalformedExpression)

\* C3 as amended: with three or more classified tokens, validate accepts
\* exactly the sequences that meet the listed conditions and in which no
\* interior Unary is preceded by a Number, and fails every other with
\* MalformedExpression.
C3_ValidateIsListedAndUnaryNotAfterNumber ==
    (validate_ret # NotCalled /\ Len(Forms) >= 3) =>
        IF /\ ListedWellFormed(Forms)
           /\ \A i \in Interior(Forms) :
                 Forms[i] = "Unary" => Forms[i - 1] # "Number"
        THEN validate_ret = Ok(<<>>)
        ELSE validate_ret = Err(MalformedExpression)

\* validate rejects Unary Number Unary Number, which meets the listed
\* conditions
C3_Witness ==
    /\ Forms = <<"Unary", "Number", "Unary", "Number">>
    /\ validate_ret = Err(MalformedExpression)

\* the Molecule is Data(a) op Data(b) with op Add, Subtract or Multiply
IsArith == Len(children) = 3 /\ children[2] \in {Add, Subtract, Multiply}

\* the exact value of a op b
Exact(cs) ==
    CASE cs[2] = Add -> cs[1].val + cs[3].val
      [] cs[2] = Subtract -> cs[1].val - cs[3].val
      [] cs[2] = Multiply -> cs[1].val * cs[3].val

\* C4: when the result of Add, Subtract or Multiply is outside T, run
\* returns the ArithmeticOverflow error: no wrapped value, no abort.
C4_OverflowIsReported ==
    (ret # NotCalled /\ IsArith /\ form(children[1]) = "Number"
       /\ form(children[3]) = "Number" /\ Exact(children) \notin T) =>
        is_err(ret)

\* the number of left minus right parentheses among the first n children
Depth(cs, n) ==
    Cardinality({i \in 1 .. n : cs[i] = LeftParen})
        - Cardinality({i \in 1 .. n : cs[i] = RightParen})

\* some right parenthesis has no unmatched left parenthesis before it
UnmatchedRight(cs) == \E n \in 1 .. Len(cs) : Depth(cs, n) < 0

\* the input holds more left than right parentheses: with no unmatched
\* right parenthesis, some left one is unmatched at the end of input
MoreLeft(cs) == Depth(cs, Len(cs)) > 0

\* C10: sort succeeds exactly on well-nested parentheses; it fails with
\* MissingLeftParenthesis when a right parenthesis is unmatched (whatever
\* follows), and with MissingRightParenthesis when only a left one is.
C10_SortChecksNesting ==
    sort_ret # NotCalled =>
        /\ is_ok(sort_ret) <=> ~UnmatchedRight(children) /\ ~MoreLeft(children)
        /\ UnmatchedRight(children) => sort_ret = Err(MissingLeftParenthesis)
        /\ (~UnmatchedRight(children) /\ MoreLeft(children)) =>
              sort_ret = Err(MissingRightParenthesis)

\* an unmatched right parenthesis is reported although a left one is
\* unmatched too
C10_Witness ==
    /\ sort_ret = Err(MissingLeftParenthesis)
    /\ MoreLeft(children)
    /\ \E i \in 1 .. Len(children) : form(children[i]) = "Number"

(***************************************************************************)
(* Claims on the effects of a run (Spec): a step of Run is compared with   *)
(* the evaluation loop replayed atom by atom from the state before it.     *)
(***************************************************************************)
\* this step is a run that got past validate and sort and entered the loop
RunStep == Run /\ RunEvaluated'

\* the loop after the first k atoms of the postfix sequence post, started
\* from memory mem and output out (the state it stopped in, if it stopped)
LoopAfter(post, k, mem, out, checks) ==
    exec(SubSeq(post, 1, k), 1, <<>>, mem, out, checks)

\* the k-th atom of post is executed: the loop reaches it with the operands
\* it pops
Executes(post, k, mem, out, checks) ==
    /\ is_ok(LoopAfter(post, k - 1, mem, out, checks).ret)
    /\ Len(LoopAfter(post, k - 1, mem, out, checks).stack) >=
           (IF form(post[k]) = "Number" THEN 0
            ELSE IF form(post[k]) = "Unary" THEN 1 ELSE 2)

\* the operand stack the k-th atom finds
StackBefore(post, k, mem, out, checks) ==
    LoopAfter(post, k - 1, mem, out, checks).stack

\* what an atom may do to the map: Assign of b to a sets key a to b, pushes
\* b and keeps every other key; any other atom keeps the map, and a Memory
\* read of a key that is not set pushes 0
MemoryEffect(atom, ops, was, now) ==
    IF atom = Assign
    THEN /\ DOMAIN now.memory = DOMAIN was.memory \cup {ops[Len(ops) - 1]}
         /\ now.memory[ops[Len(ops) - 1]] = ops[Len(ops)]
         /\ \A key \in DOMAIN was.memory \ {ops[Len(ops) - 1]} :
               now.memory[key] = was.memory[key]
         /\ is_ok(now.ret)
         /\ now.stack # <<>> /\ last(now.stack) = ops[Len(ops)]
    ELSE /\ now.memory = was.memory
         /\ (atom = Memory /\ ops[Len(ops)] \notin DOMAIN was.memory) =>
               /\ is_ok(now.ret)
               /\ now.stack # <<>> /\ last(now.stack) = 0

\* C11: the memory map is changed only by executing Assign: an executed
\* Assign of b to a sets memory[a] = b, pushes b and keeps every other key;
\* every other atom keeps the map, a Memory read of an unset key pushes 0
\* and inserts nothing; a step that executes no atom keeps the map.
C11_MemoryChangedOnlyByAssign ==
    [][IF RunStep
       THEN /\ memory' = LoopAfter(sorted_children'.val, Len(sorted_children'.val),
                                   memory, stdout, overflow_checks).memory
            /\ \A k \in 1 .. Len(sorted_children'.val) :
                  Executes(sorted_children'.val, k, memory, stdout, overflow_checks) =>
                      MemoryEffect(sorted_children'.val[k],
                                   StackBefore(sorted_children'.val, k, memory,
                                               stdout, overflow_checks),
                                   LoopAfter(sorted_children'.val, k - 1, memory,
                                             stdout, overflow_checks),
                                   LoopAfter(sorted_children'.val, k, memory,
                                             stdout, overflow_checks))
       ELSE memory' = memory]_vars

\* a run has assigned to key 1 and kept the key 0 that was set before it
C11_Witness ==
    /\ is_ok(ret)
    /\ DOMAIN memory = {0, 1}
    /\ memory[0] = 48
    /\ \E i \in 1 .. Len(children) : children[i] = Assign
    /\ \E i \in 1 .. Len(children) : children[i] = Memory

\* out is a prefix of longer
IsPrefix(out, longer) ==
    Len(out) <= Len(longer) /\ SubSeq(longer, 1, Len(out)) = out

\* the character of code point a, or the marker U+FFFF when a is negative
\* or no Unicode scalar value
CharOf(a) ==
    IF a >= 0 /\ a <= MaxScalar /\ ~(a >= SurrogateLow /\ a <= SurrogateHigh)
    THEN a
    ELSE ReplacementMarker

\* what an atom may do to the buffer: Output keeps the operand stack as it
\* found it and appends the one character of its operand; any other atom
\* keeps the buffer
OutputEffect(atom, ops, was, now) ==
    IF atom = Output
    THEN /\ is_ok(now.ret)
         /\ now.stack = ops
         /\ now.stdout = Append(was.stdout, CharOf(ops[Len(ops)]))
    ELSE now.stdout = was.stdout

\* C12: the output buffer is append-only across runs: an executed Output
\* leaves its operand on the stack and appends exactly one character, the
\* one of code point a or the marker U+FFFF; nothing else changes the
\* buffer, and the buffer before a step is a prefix of the buffer after it.
C12_OutputIsAppendOnly ==
    [][/\ IsPrefix(stdout, stdout')
       /\ IF RunStep
          THEN /\ stdout' = LoopAfter(sorted_children'.val, Len(sorted_children'.val),
                                      memory, stdout, overflow_checks).stdout
               /\ is_ok(ret') => ret'.val.output = stdout'
               /\ \A k \in 1 .. Len(sorted_children'.val) :
                     Executes(sorted_children'.val, k, memory, stdout, overflow_checks) =>
                         OutputEffect(sorted_children'.val[k],
                                      StackBefore(sorted_children'.val, k, memory,
                                                  stdout, overflow_checks),
                                      LoopAfter(sorted_children'.val, k - 1, memory,
                                                stdout, overflow_checks),
                                      LoopAfter(sorted_children'.val, k, memory,
                                                stdout, overflow_checks))
          ELSE stdout' = stdout]_vars

\* two runs of a Molecule with one Output have each appended the marker for
\* a negative operand
C12_Witness ==
    /\ is_ok(ret)
    /\ stdout = <<ReplacementMarker, ReplacementMarker>>
    /\ Cardinality({i \in 1 .. Len(children) : children[i] = Output}) = 1

(***************************************************************************)
(* Claims on the box relation (SpecBox).                                   *)
(***************************************************************************)
\* the rectangle of box p lies within or is equal to that of box q, on both
\* axes
Within(p, q) ==
    /\ q.start.x <= p.start.x /\ p.end.x <= q.end.x
    /\ q.start.y <= p.start.y /\ p.end.y <= q.end.y

\* C13: for boxes a and b that Box::new returned, a.relationship(b) is Child
\* exactly when a lies within b (identical rectangles included), Parent
\* exactly when b lies within a and a does not lie within b, and Other in
\* every remaining case.
C13_RelationshipIsContainment ==
    relation # NotCalled =>
        /\ relation.val = "Child" <=> Within(boxes.a.val, boxes.b.val)
        /\ relation.val = "Parent" <=>
              (Within(boxes.b.val, boxes.a.val) /\ ~Within(boxes.a.val, boxes.b.val))
        /\ relation.val = "Other" <=>
              (~Within(boxes.a.val, boxes.b.val) /\ ~Within(boxes.b.val, boxes.a.val))

\* two boxes of identical rectangles, wider and higher than one cell, are
\* Child
C13_Witness ==
    /\ relation = Returned("Child")
    /\ boxes.a.val.start = boxes.b.val.start
    /\ boxes.a.val.end = boxes.b.val.end
    /\ boxes.a.val.start.x < boxes.a.val.end.x
    /\ boxes.a.val.start.y < boxes.a.val.end.y

(***************************************************************************)
(* Claims on the failing operators (Spec).                                 *)
(***************************************************************************)
\* the Molecule is Data(a) op Data(b) with op Divide, Modulo or a shift
IsFallible ==
    /\ Len(children) = 3
    /\ children[2] \in {Divide, ModuloAtom, LeftShift, RightShift}
    /\ form(children[1]) = "Number"
    /\ form(children[3]) = "Number"

\* C14: Divide or Modulo by b = 0 and a shift by a negative b make run
\* return DivisionByZero, InvalidModulus, NegativeShiftAmount as an Err
\* value; with every other right operand these four operators do not fail.
C14_FailsOnlyOnBadRightOperand ==
    (ret # NotCalled /\ IsFallible) =>
        CASE children[2] = Divide /\ children[3].val = 0 ->
                 ret = Err(DivisionByZero)
          [] children[2] = ModuloAtom /\ children[3].val = 0 ->
                 ret = Err(InvalidModulus)
          [] children[2] \in {LeftShift, RightShift} /\ children[3].val < 0 ->
                 ret = Err(NegativeShiftAmount)
          [] OTHER -> is_ok(ret)

(***************************************************************************)
(* Specification of operator chains: Molecule::new of x op1 y op2 z for    *)
(* every pair of binary operators, sorted, validated and run.              *)
(***************************************************************************)
ChainValues == {0, 1, 2}

ChainPrograms ==
    {<<Data(x), op1, Data(y), op2, Data(z)>> :
        x \in ChainValues, y \in ChainValues, z \in ChainValues,
        op1 \in BinaryAtoms, op2 \in BinaryAtoms}

InitChain ==
    /\ children \in ChainPrograms
    /\ sorted_children = None
    /\ valid = FALSE
    /\ memory \in Memories
    /\ stdout = <<>>
    /\ overflow_checks \in BOOLEAN
    /\ ret = NotCalled
    /\ run_stack = <<>>
    /\ sort_ret = NotCalled
    /\ validate_ret = NotCalled
    /\ boxIdle /\ mathIdle /\ parseIdle

SpecChain == InitChain /\ [][Next]_vars

\* the precedences C15 lists
ListedPrecedence(op) ==
    CASE op = Assign -> 1
      [] op \in {Less, Greater, Equal, NotEqual} -> 2
      [] op = Or -> 3
      [] op = Xor -> 4
      [] op = And -> 5
      [] op \in {LeftShift, RightShift} -> 6
      [] op \in {Add, Subtract} -> 7
      [] op \in {Multiply, Divide, ModuloAtom, InverseModuloAtom} -> 8

\* op1 is applied first in x op1 y op2 z
GroupsLeft(op1, op2) ==
    IF op2 = Assign
    THEN ListedPrecedence(op1) > ListedPrecedence(op2)
    ELSE ListedPrecedence(op1) >= ListedPrecedence(op2)

\* the postfix order C15 gives for cs = [x, op1, y, op2, z]
ListedOrder(cs) ==
    IF GroupsLeft(cs[2], cs[4])
    THEN <<cs[1], cs[3], cs[2], cs[5], cs[4]>>
    ELSE <<cs[1], cs[3], cs[5], cs[4], cs[2]>>

\* C15: sort of [x, op1, y, op2, z] yields [x, y, op1, z, op2] when op1 has
\* the precedence of op2 or a higher one (a strictly higher one when op2 is
\* Assign), else [x, y, z, op2, op1]; a chain k1 Assign k2 Assign v groups
\* right-to-left and a run of it stores v under both keys.
C15_SortOrdersByPrecedence ==
    /\ sort_ret # NotCalled => sort_ret = Ok(ListedOrder(children))
    /\ (ret # NotCalled /\ children[2] = Assign /\ children[4] = Assign) =>
          /\ sorted_children = Some(<<children[1], children[3], children[5],
                                      Assign, Assign>>)
          /\ ret = Ok([result |-> children[5].val, output |-> <<>>])
          /\ {children[1].val, children[3].val} \subseteq DOMAIN memory
          /\ memory[children[1].val] = children[5].val
          /\ memory[children[3].val] = children[5].val

\* the chain 1 Assign 2 Assign 0 was sorted and run: 0 is stored under the
\* keys 1 and 2
C15_Witness ==
    /\ children = <<Data(1), Assign, Data(2), Assign, Data(0)>>
    /\ sort_ret = Ok(<<Data(1), Data(2), Data(0), Assign, Assign>>)
    /\ is_ok(ret)
    /\ memory[1] = 0 /\ memory[2] = 0

(***************************************************************************)
(* Claims on the memoized state of a Molecule (Spec).                      *)
(***************************************************************************)
\* C16: sorted_children goes from None to Some only by a successful sort,
\* whose result it then holds, and is never modified afterwards; it stays
\* None after a failed sort; every later sort returns exactly the sequence
\* held; and a Molecule that was run, run again from an equal memory map
\* and output buffer, returns the same result or the same error.
C16_MemoIsWrittenOnceAndTransparent ==
    [][/\ sorted_children # None => sorted_children' = sorted_children
       /\ (sorted_children = None /\ sorted_children' # None) =>
             sort_loop(children, 1, <<>>, <<>>) = Ok(sorted_children'.val)
       /\ (Sort /\ sorted_children = None) =>
             IF is_ok(sort_ret')
             THEN sorted_children' = Some(sort_ret'.val)
             ELSE sorted_children' = None
       /\ (Sort /\ sorted_children # None) =>
             sort_ret' = Ok(sorted_children.val)
       /\ (Run /\ alive') =>
             run(children, sorted_children', valid', memory, stdout,
                 overflow_checks).ret = ret']_vars

\* a Molecule with one Output was run twice with success, and a sort of it
\* returned the sequence it holds
C16_Witness ==
    /\ is_ok(ret)
    /\ Len(stdout) = 2
    /\ Cardinality({i \in 1 .. Len(children) : children[i] = Output}) = 1
    /\ sorted_children # None
    /\ sort_ret = Ok(sorted_children.val)
    /\ sorted_children.val # children

\* the last run was refused by validate or by sort
Refused(r) ==
    \/ r = Err(MalformedExpression)
    \/ r = Err(MissingLeftParenthesis)
    \/ r = Err(MissingRightParenthesis)

\* C17: a run that returns MalformedExpression, MissingLeftParenthesis or
\* MissingRightParenthesis leaves the memory map and the output buffer
\* exactly as they were before the call.
C17_RefusedRunChangesNothing ==
    [][(Run /\ Refused(ret')) => (memory' = memory /\ stdout' = stdout)]_vars

\* a Molecule that reads a number, writes it out and assigns was refused:
\* the map still holds what it held, and nothing was written
C17_Witness ==
    /\ ret # NotCalled
    /\ Refused(ret)
    /\ memory = [k \in {0} |-> 48]
    /\ stdout = <<>>
    /\ \E i \in 1 .. Len(children) : children[i] = Output
    /\ \E i \in 1 .. Len(children) : children[i] = Assign
    /\ \E i \in 1 .. Len(children) : form(children[i]) = "Number"

====
